---- MODULE Spec2Model ----
(***************************************************************************)
(* Expense lifecycle of OES-Expense: the expenses, expense_files and       *)
(* expense_status_logs tables behind their row-level-security policies,    *)
(* and the client handlers that write them (the expense form, the          *)
(* approvals page and the payments page).                                  *)
(***************************************************************************)
EXTENDS Integers, Sequences, FiniteSets, TLC

\* ---------------------------------------------------------------- bounds
MaxExpenses == 1
MaxFiles == 1
MaxStoredFiles == 1
MaxLogs == 2
MaxAdvances == 2
MaxFetches == 2

\* ------------------------------------------------------------ vocabulary
NULL == "NULL"

Users == {"emp", "emp2", "mgr1", "mgr2", "own", "own2", "acc", "acc2", "new"}

user_role == {"employee", "manager", "owner", "accounts"}

expense_status ==
  {"draft", "submitted", "reviewed", "manager_approved", "manager_rejected",
   "owner_approved", "owner_rejected", "pending_payment", "paid"}

\* what a user can type into the expense form: one good filling and one
\* filling per field that the schema refuses
GoodInput == [title |-> "Team lunch", amount |-> 500, category |-> "Food & Dining",
              expense_date |-> "2025-12-09"]
FormInputs ==
  {GoodInput,
   [GoodInput EXCEPT !.title = "ab"],
   [GoodInput EXCEPT !.amount = 0],
   [GoodInput EXCEPT !.category = ""],
   [GoodInput EXCEPT !.expense_date = ""]}
Reasons == {"", " ", "over budget"}
References == {" ", "TXN123"}

VARIABLES
  user_roles,           \* user_roles table: user -> roles in row order
  expenses,             \* expenses table: sequence of rows, id = index
  expense_files,        \* expense_files table: number of bill rows per expense
  expense_status_logs,  \* expense_status_logs table: per expense, rows in insert order
  transitions,          \* history: per expense, the transitions that took effect
  form,                 \* ExpenseForm component state, per user
  approvals,            \* Approvals page: per user, the ids shown as pending
  payments,             \* Payments page: per user, the ids shown as pending payment
  lastResult,           \* what the last handler reported to its caller
  auth_users,           \* auth.users: per registered account, the role of raw_user_meta_data
  profiles,             \* profiles table: the users that have a profile row
  roles,                \* AuthProvider state: per user, the roles the client resolved
  users,                \* Users page: per user, the cached 'users' query result
  dashboard,            \* Dashboard page: the last fetchDashboardData
  my_expenses,          \* MyExpenses page: per user, the cached 'my-expenses' rows
  advance_requests,     \* advance_requests table: sequence of rows, id = index
  advance_transitions,  \* history: per advance, the status changes that took effect
  advances,             \* Approvals page: per user, the cached 'advance-approvals' rows
  user,                 \* AuthProvider state: per browser, the signed-in user or NULL
  roleFetches           \* per browser, the fetchRoles calls awaiting their select

\* the tables and client state of sign-up, role resolution and the Users page
accountVars == <<auth_users, profiles, roles, users, dashboard>>

\* the MyExpenses page, the advance requests and the AuthProvider session
pageVars == <<my_expenses, advance_requests, advance_transitions, advances, user,
              roleFetches>>

vars == <<user_roles, expenses, expense_files, expense_status_logs, transitions,
          form, approvals, payments, lastResult, accountVars, pageVars>>

\* ------------------------------------------------------- role resolution
has_role(_user_id, _role) ==
  \E i \in DOMAIN user_roles[_user_id] : user_roles[_user_id][i] = _role

\* roles.includes(role) on a list of role rows
Holds(rs, role) == \E i \in DOMAIN rs : rs[i] = role

\* useUserRole().primaryRole: the first resolved role, 'employee' when none
primaryRole(u) ==
  IF Len(roles[u]) > 0 THEN roles[u][1] ELSE "employee"

\* ------------------------------------------------ row-level-security rules
\* a select policy that lets every signed-in user read every row
ExpenseSelectPolicyAll(uid, row) == TRUE

\* select policies that test the role and not the status
ExpenseSelectPolicyNoStatus(uid, row) ==
  \/ row.user_id = uid
  \/ has_role(uid, "manager")
  \/ has_role(uid, "owner")
  \/ has_role(uid, "accounts")

ExpenseSelectPolicy(uid, row) ==
  \/ row.user_id = uid
  \/ has_role(uid, "manager")
       /\ row.status \in {"submitted", "reviewed", "manager_approved", "manager_rejected"}
  \/ has_role(uid, "owner")
  \/ has_role(uid, "accounts")
       /\ row.status \in {"owner_approved", "pending_payment", "paid"}

ExpenseInsertPolicy(uid, row) == uid = row.user_id

ExpenseUpdatePolicy(uid, row) ==
  \/ uid = row.user_id /\ row.status = "draft"
  \/ has_role(uid, "manager")
  \/ has_role(uid, "owner")
  \/ has_role(uid, "accounts")

StatusLogInsertPolicy(uid, log) == uid = log.changed_by

ExpenseFileInsertPolicy(uid, expense_id, file_category) ==
  \/ /\ expense_id \in DOMAIN expenses
     /\ ExpenseSelectPolicy(uid, expenses[expense_id])
     /\ expenses[expense_id].user_id = uid
  \/ has_role(uid, "accounts") /\ file_category = "payment_proof"

\* the EXISTS sub-select of the file and log policies, without the expenses
\* policies applied to it
ParentExistsForRole(uid, expense_id) ==
  \E id \in DOMAIN expenses :
    /\ id = expense_id
    /\ \/ expenses[id].user_id = uid
       \/ has_role(uid, "manager")
       \/ has_role(uid, "owner")
       \/ has_role(uid, "accounts")

\* EXISTS (SELECT 1 FROM expenses WHERE id = expense_id AND (...)): the
\* sub-select runs as the querying user, so the expenses select policies
\* filter it
ParentVisibleForRole(uid, expense_id) ==
  \E id \in DOMAIN expenses :
    /\ ExpenseSelectPolicy(uid, expenses[id])
    /\ id = expense_id
    /\ \/ expenses[id].user_id = uid
       \/ has_role(uid, "manager")
       \/ has_role(uid, "owner")
       \/ has_role(uid, "accounts")

ExpenseFileSelectPolicy(uid, expense_id) == ParentVisibleForRole(uid, expense_id)

StatusLogSelectPolicy(uid, expense_id) == ParentVisibleForRole(uid, expense_id)

\* UPDATE expenses SET ... WHERE id = expense_id, run as uid. The policies'
\* USING clauses select the row (no match: zero rows, no error); the new row
\* must satisfy the same clauses (no WITH CHECK is declared) or the statement
\* fails.
UpdateExpense(uid, expense_id, new) ==
  IF expense_id \notin DOMAIN expenses THEN [rows |-> 0, error |-> FALSE]
  ELSE IF ~(ExpenseSelectPolicy(uid, expenses[expense_id])
            /\ ExpenseUpdatePolicy(uid, expenses[expense_id]))
         THEN [rows |-> 0, error |-> FALSE]
  ELSE IF ~(ExpenseUpdatePolicy(uid, new) /\ ExpenseSelectPolicy(uid, new))
         THEN [rows |-> 0, error |-> TRUE]
  ELSE [rows |-> 1, error |-> FALSE]

\* ------------------------------------------------------------------ rows
NewExpense(uid, amount, status) ==
  [user_id |-> uid, amount |-> amount, status |-> status,
   manager_approved_by |-> NULL, manager_rejection_reason |-> NULL,
   owner_approved_by |-> NULL, owner_rejection_reason |-> NULL,
   paid_by |-> NULL, payment_reference |-> NULL]

StatusIn(rows, id) == IF id \in DOMAIN rows THEN rows[id].status ELSE "none"

StatusOf(id) == StatusIn(expenses, id)

NoResult == [op |-> "none", actor |-> NULL, id |-> 0, pre |-> "none", outcome |-> "none"]

ClosedForm == [pc |-> "closed", id |-> 0, expenseId |-> 0, shouldSubmit |-> FALSE,
               files |-> 0, pre |-> "none"]

\* users who file expenses through the form
Submitters == {"emp"}

\* users who work on the approvals page
Reviewers == {"mgr1", "mgr2", "own"}

\* ------------------------------------------------------------ validation
Trim(s) == IF s = " " THEN "" ELSE s

StrLen(s) ==
  CASE s = "" -> 0
    [] s = " " -> 1
    [] s = "ab" -> 2
    [] s = "short" -> 5
    [] s = "over budget" -> 11
    [] s = "site travel advance" -> 19
    [] OTHER -> 3

expenseSchema(title, amount, category, expense_date) ==
  /\ StrLen(Trim(title)) >= 3
  /\ amount > 0
  /\ StrLen(category) >= 1
  /\ StrLen(expense_date) >= 1

\* ------------------------------------------------------------------ init
\* the role rows of the seeded accounts; "new" has not signed up
SeedRoles ==
  [u \in Users |->
     CASE u \in {"emp", "emp2"} -> <<"employee">>
       [] u = "mgr1" -> <<"manager">>
       [] u = "mgr2" -> <<"manager", "owner">>
       [] u = "own" -> <<"owner">>
       [] u = "own2" -> <<"owner", "manager">>
       [] u \in {"acc", "acc2"} -> <<"accounts">>
       [] OTHER -> <<>>]

NoUsersCache == [loaded |-> FALSE, list |-> [id \in {} |-> <<>>]]

NoDashboard == [actor |-> NULL, held |-> <<>>, resolved |-> <<>>, branch |-> "none",
                rows |-> {}, activity |-> {}]

Init ==
  /\ user_roles = SeedRoles
  /\ auth_users = [u \in Users \ {"new"} |-> NULL]
  /\ profiles = Users \ {"new"}
  /\ roles = SeedRoles
  /\ users = [u \in Users |-> NoUsersCache]
  /\ dashboard = NoDashboard
  /\ expenses = <<>>
  /\ expense_files = <<>>
  /\ expense_status_logs = <<>>
  /\ transitions = <<>>
  /\ form = [u \in Users |-> ClosedForm]
  /\ approvals = [u \in Users |-> {}]
  /\ payments = [u \in Users |-> {}]
  /\ lastResult = NoResult
  /\ my_expenses = [u \in Users |-> {}]
  /\ advance_requests = <<>>
  /\ advance_transitions = <<>>
  /\ advances = [u \in Users |-> {}]
  /\ user = [u \in Users |-> u]
  /\ roleFetches = [u \in Users |-> 0]

\* ---------------------------------------------------------- expense form
\* /expense/new
OpenNewForm(u) ==
  /\ u \in Submitters
  /\ form[u].pc = "closed"
  /\ form' = [form EXCEPT ![u] = [ClosedForm EXCEPT !.pc = "editing"]]
  /\ UNCHANGED <<pageVars, accountVars, user_roles, expenses, expense_files, expense_status_logs,
                 transitions, approvals, payments, lastResult>>

\* /expense/:id -- fetchExpense: the form stays open only on the user's own draft;
\* a row the select does not return is a load error and leaves the page on screen
fetchExpense(u, id) ==
  /\ u \in Submitters
  /\ form[u].pc = "closed"
  /\ id \in 1..MaxExpenses
  /\ IF id \notin DOMAIN expenses \/ ~ExpenseSelectPolicy(u, expenses[id])
       THEN form' = [form EXCEPT ![u] = [ClosedForm EXCEPT !.pc = "editing", !.id = id]]
       ELSE IF expenses[id].user_id # u \/ expenses[id].status # "draft"
       THEN form' = form
       ELSE form' = [form EXCEPT ![u] = [ClosedForm EXCEPT !.pc = "editing", !.id = id]]
  /\ UNCHANGED <<pageVars, accountVars, user_roles, expenses, expense_files, expense_status_logs,
                 transitions, approvals, payments, lastResult>>

FormOp(id, shouldSubmit) ==
  IF shouldSubmit THEN "submit" ELSE IF id = 0 THEN "create" ELSE "editDraft"

\* handleSubmit up to the first await that writes the expense row
handleSubmit(u, shouldSubmit, input, nfiles) ==
  LET f == form[u]
      status == IF shouldSubmit THEN "submitted" ELSE "draft"
      failed(outcome) ==
        /\ lastResult' = [op |-> FormOp(f.id, shouldSubmit), actor |-> u, id |-> f.id,
                          pre |-> StatusOf(f.id), outcome |-> outcome]
        /\ UNCHANGED <<expenses, expense_files, expense_status_logs, transitions, form>>
      next(expenseId) ==
        form' = [form EXCEPT ![u] =
                   [pc |-> IF nfiles > 0 THEN "saved" ELSE "uploaded",
                    id |-> f.id, expenseId |-> expenseId, shouldSubmit |-> shouldSubmit,
                    files |-> nfiles, pre |-> StatusOf(f.id)]]
  IN
  /\ f.pc = "editing"
  /\ IF ~expenseSchema(input.title, input.amount, input.category, input.expense_date)
       THEN failed("ValidationError")
     ELSE IF f.id # 0
       THEN \* update existing
         /\ f.id \in DOMAIN expenses =>
              /\ Len(expense_status_logs[f.id]) < MaxLogs
              /\ expense_files[f.id] + nfiles <= MaxStoredFiles
         /\ LET new == IF f.id \in DOMAIN expenses
                         THEN [expenses[f.id] EXCEPT !.amount = input.amount, !.status = status]
                         ELSE NewExpense(u, input.amount, status)
                r == UpdateExpense(u, f.id, new)
            IN IF r.error THEN failed("error")
               ELSE /\ next(f.id)
                    /\ IF r.rows = 1
                         THEN /\ expenses' = [expenses EXCEPT ![f.id] = new]
                              /\ transitions' =
                                   IF shouldSubmit
                                     THEN [transitions EXCEPT ![f.id] =
                                             Append(@, [status |-> status, actor |-> u])]
                                     ELSE transitions
                         ELSE UNCHANGED <<expenses, transitions>>
                    /\ UNCHANGED <<expense_files, expense_status_logs, lastResult>>
       ELSE \* create new
         /\ Len(expenses) < MaxExpenses
         /\ nfiles <= MaxStoredFiles
         /\ LET new == NewExpense(u, input.amount, status)
            IN IF ~ExpenseInsertPolicy(u, new) \/ ~ExpenseSelectPolicy(u, new)
                 THEN failed("error")
               ELSE /\ next(Len(expenses) + 1)
                    /\ expenses' = Append(expenses, new)
                    /\ expense_files' = Append(expense_files, 0)
                    /\ expense_status_logs' = Append(expense_status_logs, <<>>)
                    /\ transitions' = Append(transitions, <<[status |-> status, actor |-> u]>>)
                    /\ UNCHANGED lastResult
  /\ UNCHANGED <<pageVars, accountVars, user_roles, approvals, payments>>

\* uploadFiles: the first stored files get their expense_files row, the first
\* failure throws and handleSubmit's catch leaves the form on screen
uploadFiles(u, stored) ==
  LET f == form[u]
      allowed == ExpenseFileInsertPolicy(u, f.expenseId, "bill")
  IN
  /\ f.pc = "saved"
  /\ stored \in 0..f.files
  /\ ~allowed => stored = 0
  /\ expense_files' = IF stored > 0
                        THEN [expense_files EXCEPT ![f.expenseId] = @ + stored]
                        ELSE expense_files
  /\ IF stored = f.files
       THEN /\ form' = [form EXCEPT ![u].pc = "uploaded"]
            /\ UNCHANGED lastResult
       ELSE /\ form' = [form EXCEPT ![u] =
                          [ClosedForm EXCEPT !.pc = "editing", !.id = f.id]]
            /\ lastResult' = [op |-> FormOp(f.id, f.shouldSubmit), actor |-> u,
                              id |-> f.expenseId, pre |-> f.pre, outcome |-> "error"]
  /\ UNCHANGED <<pageVars, accountVars, user_roles, expenses, expense_status_logs, transitions,
                 approvals, payments>>

\* a status log insert whose failure is thrown into handleSubmit's catch
createStatusLogFatal(u, storageOk) ==
  LET f == form[u]
      log == [status |-> IF f.shouldSubmit THEN "submitted" ELSE "draft", changed_by |-> u]
      served == storageOk /\ f.expenseId \in DOMAIN expenses /\ StatusLogInsertPolicy(u, log)
  IN
  /\ f.pc = "uploaded"
  /\ expense_status_logs' =
       IF served THEN [expense_status_logs EXCEPT ![f.expenseId] = Append(@, log)]
       ELSE expense_status_logs
  /\ lastResult' = [op |-> FormOp(f.id, f.shouldSubmit), actor |-> u, id |-> f.expenseId,
                    pre |-> f.pre, outcome |-> IF served THEN "success" ELSE "error"]
  /\ form' = [form EXCEPT ![u] = IF served THEN ClosedForm
                                 ELSE [ClosedForm EXCEPT !.pc = "editing", !.id = f.id]]
  /\ UNCHANGED <<pageVars, accountVars, user_roles, expenses, expense_files, transitions,
                 approvals, payments>>

\* the status log insert (its result is not looked at), the success toast and
\* the navigation away from the form
createStatusLog(u, storageOk) ==
  LET f == form[u]
      log == [status |-> IF f.shouldSubmit THEN "submitted" ELSE "draft", changed_by |-> u]
  IN
  /\ f.pc = "uploaded"
  /\ expense_status_logs' =
       IF storageOk /\ f.expenseId \in DOMAIN expenses /\ StatusLogInsertPolicy(u, log)
         THEN [expense_status_logs EXCEPT ![f.expenseId] = Append(@, log)]
         ELSE expense_status_logs
  /\ lastResult' = [op |-> FormOp(f.id, f.shouldSubmit), actor |-> u, id |-> f.expenseId,
                    pre |-> f.pre, outcome |-> "success"]
  /\ form' = [form EXCEPT ![u] = ClosedForm]
  /\ UNCHANGED <<pageVars, accountVars, user_roles, expenses, expense_files, transitions, approvals, payments>>

\* -------------------------------------------------------- approvals page
isPending(role, status) ==
  IF role = "manager" THEN status \in {"submitted", "reviewed"}
  ELSE IF role = "owner" THEN status = "manager_approved"
  ELSE FALSE

\* the rows the approvals query returns to u that the page lists as pending
PendingApprovals(u, rows) ==
  {id \in DOMAIN rows :
     /\ ExpenseSelectPolicy(u, rows[id])
     /\ isPending(primaryRole(u), rows[id].status)}

fetchApprovals(u) ==
  /\ u \in Reviewers
  /\ primaryRole(u) \in {"manager", "owner"}
  /\ approvals' = [approvals EXCEPT ![u] = PendingApprovals(u, expenses)]
  /\ UNCHANGED <<pageVars, accountVars, user_roles, expenses, expense_files, expense_status_logs,
                 transitions, form, payments, lastResult>>

\* a review mutation: one update by id, then onSuccess (toast and refetch of
\* the 'approvals' query) or onError
ReviewMutation(u, expenseId, op, new) ==
  LET r == UpdateExpense(u, expenseId, new)
      after == IF r.rows = 1 THEN [expenses EXCEPT ![expenseId] = new] ELSE expenses
  IN
  /\ expenses' = after
  /\ transitions' = IF r.rows = 1
                      THEN [transitions EXCEPT ![expenseId] =
                              Append(@, [status |-> new.status, actor |-> u])]
                      ELSE transitions
  /\ approvals' = IF r.error THEN approvals
                  ELSE [approvals EXCEPT ![u] = PendingApprovals(u, after)]
  /\ lastResult' = [op |-> op, actor |-> u, id |-> expenseId, pre |-> StatusOf(expenseId),
                    outcome |-> IF r.error THEN "error" ELSE "success"]
  /\ UNCHANGED <<pageVars, accountVars, user_roles, expense_files, expense_status_logs, form, payments>>

approveMutation(u, expenseId) ==
  /\ primaryRole(u) \in {"manager", "owner"}
  /\ expenseId \in approvals[u]
  /\ LET new == IF primaryRole(u) = "manager"
                  THEN [expenses[expenseId] EXCEPT !.status = "manager_approved",
                                                   !.manager_approved_by = u]
                  ELSE [expenses[expenseId] EXCEPT !.status = "owner_approved",
                                                   !.owner_approved_by = u]
     IN ReviewMutation(u, expenseId, "approve", new)

rejectMutation(u, expenseId, reason) ==
  /\ primaryRole(u) \in {"manager", "owner"}
  /\ expenseId \in approvals[u]
  /\ LET new == IF primaryRole(u) = "manager"
                  THEN [expenses[expenseId] EXCEPT !.status = "manager_rejected",
                                                   !.manager_rejection_reason = reason]
                  ELSE [expenses[expenseId] EXCEPT !.status = "owner_rejected",
                                                   !.owner_rejection_reason = reason]
     IN ReviewMutation(u, expenseId, "reject", new)

\* Reject button of pages/Approvals.tsx: the reason is optional
RejectClick(u, expenseId, reason) ==
  /\ reason \in Reasons
  /\ rejectMutation(u, expenseId, reason)

\* Reject button of the approvals page with advances: a blank reason only toasts
RejectClickWithReason(u, expenseId, reason) ==
  /\ primaryRole(u) \in {"manager", "owner"}
  /\ expenseId \in approvals[u]
  /\ IF Trim(reason) = ""
       THEN /\ lastResult' = [op |-> "reject", actor |-> u, id |-> expenseId,
                              pre |-> StatusOf(expenseId), outcome |-> "ValidationError"]
            /\ UNCHANGED <<pageVars, accountVars, user_roles, expenses, expense_files, expense_status_logs,
                           transitions, form, approvals, payments>>
       ELSE rejectMutation(u, expenseId, reason)

\* --------------------------------------------------------- payments page
PendingPayments(u, rows) ==
  {id \in DOMAIN rows :
     ExpenseSelectPolicy(u, rows[id]) /\ rows[id].status = "owner_approved"}

fetchPayments(u) ==
  /\ primaryRole(u) = "accounts"
  /\ payments' = [payments EXCEPT ![u] = PendingPayments(u, expenses)]
  /\ UNCHANGED <<pageVars, accountVars, user_roles, expenses, expense_files, expense_status_logs,
                 transitions, form, approvals, lastResult>>

\* Mark as Paid (disabled while the reference is blank)
markAsPaidMutation(u, expenseId, reference) ==
  /\ primaryRole(u) = "accounts"
  /\ expenseId \in payments[u]
  /\ Trim(reference) # ""
  /\ LET new == [expenses[expenseId] EXCEPT !.status = "paid", !.paid_by = u,
                                            !.payment_reference = reference]
         r == UpdateExpense(u, expenseId, new)
         after == IF r.rows = 1 THEN [expenses EXCEPT ![expenseId] = new] ELSE expenses
     IN /\ expenses' = after
        /\ transitions' = IF r.rows = 1
                            THEN [transitions EXCEPT ![expenseId] =
                                    Append(@, [status |-> "paid", actor |-> u])]
                            ELSE transitions
        /\ payments' = IF r.error THEN payments
                       ELSE [payments EXCEPT ![u] = PendingPayments(u, after)]
        /\ lastResult' = [op |-> "pay", actor |-> u, id |-> expenseId,
                          pre |-> StatusOf(expenseId),
                          outcome |-> IF r.error THEN "error" ELSE "success"]
  /\ UNCHANGED <<pageVars, accountVars, user_roles, expense_files, expense_status_logs, form, approvals>>

\* ------------------------------------------------------- role resolution
\* the users who sign in again while the model runs
Sessions == {"emp", "mgr1", "own", "acc"}

\* AuthProvider.fetchRoles on an auth state change: the role rows of the user,
\* or none when the select fails
fetchRoles(userId, ok) ==
  /\ userId \in Sessions
  /\ userId \in DOMAIN auth_users
  /\ roles' = [roles EXCEPT ![userId] = IF ok THEN user_roles[userId] ELSE <<>>]
  /\ lastResult' = [op |-> "fetchRoles", actor |-> userId, id |-> 0, pre |-> "none",
                    outcome |-> IF ok THEN "success" ELSE "error"]
  /\ UNCHANGED pageVars
  /\ UNCHANGED <<user_roles, expenses, expense_files, expense_status_logs, transitions,
                 form, approvals, payments, auth_users, profiles, users, dashboard>>

\* -------------------------------------------------------- dashboard page
\* SELECT ... FROM expenses run as uid: the rows the policies let through
SelectExpenses(uid, rows) ==
  {[id |-> id, user_id |-> rows[id].user_id, status |-> rows[id].status] :
     id \in {i \in DOMAIN rows : ExpenseSelectPolicy(uid, rows[i])}}

\* fetchDashboardData: the expenses query filtered by primaryRole, then the
\* role's activity query
fetchDashboardData(u) ==
  LET role == primaryRole(u)
      visible == SelectExpenses(u, expenses)
      rows == IF role = "employee" THEN {r \in visible : r.user_id = u}
              ELSE IF role = "manager"
                THEN {r \in visible : r.user_id = u \/ r.status \in {"submitted", "reviewed"}}
              ELSE visible
      by(r) == IF role = "manager" THEN expenses[r.id].manager_approved_by
               ELSE IF role = "owner" THEN expenses[r.id].owner_approved_by
               ELSE IF role = "accounts" THEN expenses[r.id].paid_by
               ELSE NULL
  IN
  /\ u \in DOMAIN auth_users
  /\ dashboard' = [actor |-> u, held |-> user_roles[u], resolved |-> roles[u],
                   branch |-> IF role \in {"employee", "manager"} THEN role ELSE "all",
                   rows |-> rows,
                   activity |-> {r \in visible : by(r) = u}]
  /\ UNCHANGED pageVars
  /\ UNCHANGED <<user_roles, expenses, expense_files, expense_status_logs, transitions,
                 form, approvals, payments, lastResult, auth_users, profiles, roles, users>>

\* ---------------------------------------------------------------- sign-up
\* what a sign-up request can carry as raw_user_meta_data->>'role'
MetaRoles == {NULL, "employee", "owner"}

\* who sends sign-up requests: an unregistered address and a registered one
Applicants == {"new", "emp2"}

\* the first migration's trigger function: the role of the metadata if any
handle_new_user_original(meta) == IF meta # NULL THEN meta ELSE "employee"

\* the trigger function in force: the role inserted for a new auth.users row
handle_new_user(meta) == "employee"

\* supabase.auth.signUp and the on_auth_user_created trigger
signUp(u, meta) ==
  /\ u \in Applicants
  /\ meta \in MetaRoles
  /\ IF u \in DOMAIN auth_users
       THEN /\ lastResult' = [op |-> "signUp", actor |-> u, id |-> 0, pre |-> "none",
                              outcome |-> "error"]
            /\ UNCHANGED <<auth_users, profiles, user_roles>>
       ELSE /\ auth_users' = [x \in DOMAIN auth_users \cup {u} |->
                                IF x = u THEN meta ELSE auth_users[x]]
            /\ profiles' = profiles \cup {u}
            /\ user_roles' = [user_roles EXCEPT ![u] = Append(@, handle_new_user(meta))]
            /\ lastResult' = [op |-> "signUp", actor |-> u, id |-> 0, pre |-> "none",
                              outcome |-> "success"]
  /\ UNCHANGED pageVars
  /\ UNCHANGED <<expenses, expense_files, expense_status_logs, transitions, form,
                 approvals, payments, roles, users, dashboard>>

\* ------------------------------------------------------------- users page
ProfileSelectPolicy(uid, id) ==
  \/ uid = id
  \/ has_role(uid, "manager") \/ has_role(uid, "owner") \/ has_role(uid, "accounts")

ProfileDeletePolicy(uid) == has_role(uid, "owner")

\* write policies that accept any of the elevated roles
UserRoleWritePolicyAnyStaff(uid) ==
  has_role(uid, "manager") \/ has_role(uid, "owner") \/ has_role(uid, "accounts")

\* "Owners can insert / delete / update user roles"
UserRoleWritePolicy(uid) == has_role(uid, "owner")

\* INSERT INTO user_roles (user_id, role), run as uid
InsertUserRole(uid, user_id, role) ==
  IF ~UserRoleWritePolicy(uid) THEN [rows |-> 0, error |-> TRUE]
  ELSE IF user_id \notin DOMAIN auth_users \/ has_role(user_id, role)
    THEN [rows |-> 0, error |-> TRUE]
  ELSE [rows |-> 1, error |-> FALSE]

\* the role rows of user_id that remain after DELETE FROM user_roles WHERE
\* user_id = ... AND role IN gone, run as uid
DeleteUserRoles(uid, user_id, gone) ==
  IF UserRoleWritePolicy(uid)
    THEN SelectSeq(user_roles[user_id], LAMBDA r : r \notin gone)
    ELSE user_roles[user_id]

\* the 'users' query: the profiles the policies show, each with its role rows
UsersQuery(uid, profileRows, roleRows) ==
  [loaded |-> TRUE,
   list |-> [id \in {p \in profileRows : ProfileSelectPolicy(uid, p)} |-> roleRows[id]]]

\* the users whose cards are worked on, and the roles picked in the dialog
Managed == {"own2", "new"}

AssignableRoles == {"manager", "owner"}

CardOf(o, target) ==
  /\ primaryRole(o) = "owner"
  /\ users[o].loaded
  /\ target \in DOMAIN users[o].list
  /\ target \in Managed

fetchUsers(o) ==
  /\ o \in DOMAIN auth_users
  /\ primaryRole(o) = "owner"
  /\ users' = [users EXCEPT ![o] = UsersQuery(o, profiles, user_roles)]
  /\ UNCHANGED pageVars
  /\ UNCHANGED <<user_roles, expenses, expense_files, expense_status_logs, transitions,
                 form, approvals, payments, lastResult, auth_users, profiles, roles,
                 dashboard>>

addRoleMutation(o, userId, role) ==
  LET r == InsertUserRole(o, userId, role)
      after == IF r.rows = 1 THEN [user_roles EXCEPT ![userId] = Append(@, role)]
               ELSE user_roles
  IN
  /\ CardOf(o, userId)
  /\ role \in AssignableRoles
  /\ ~Holds(users[o].list[userId], role)
  /\ user_roles' = after
  /\ users' = IF r.error THEN users
               ELSE [users EXCEPT ![o] = UsersQuery(o, profiles, after)]
  /\ lastResult' = [op |-> "addRole", actor |-> o, id |-> 0, pre |-> "none",
                    outcome |-> IF r.error THEN "error" ELSE "success"]
  /\ UNCHANGED pageVars
  /\ UNCHANGED <<expenses, expense_files, expense_status_logs, transitions, form,
                 approvals, payments, auth_users, profiles, roles, dashboard>>

removeRoleMutation(o, userId, role) ==
  LET after == [user_roles EXCEPT ![userId] = DeleteUserRoles(o, userId, {role})]
  IN
  /\ CardOf(o, userId)
  /\ Holds(users[o].list[userId], role)
  /\ Len(users[o].list[userId]) > 1
  /\ user_roles' = after
  /\ users' = [users EXCEPT ![o] = UsersQuery(o, profiles, after)]
  /\ lastResult' = [op |-> "removeRole", actor |-> o, id |-> 0, pre |-> "none",
                    outcome |-> "success"]
  /\ UNCHANGED pageVars
  /\ UNCHANGED <<expenses, expense_files, expense_status_logs, transitions, form,
                 approvals, payments, auth_users, profiles, roles, dashboard>>

deleteUserMutation(o, userId) ==
  LET after == [user_roles EXCEPT ![userId] = DeleteUserRoles(o, userId, user_role)]
      left == IF ProfileDeletePolicy(o) THEN profiles \ {userId} ELSE profiles
  IN
  /\ CardOf(o, userId)
  /\ user_roles' = after
  /\ profiles' = left
  /\ users' = [users EXCEPT ![o] = UsersQuery(o, left, after)]
  /\ lastResult' = [op |-> "deleteUser", actor |-> o, id |-> 0, pre |-> "none",
                    outcome |-> "success"]
  /\ UNCHANGED pageVars
  /\ UNCHANGED <<expenses, expense_files, expense_status_logs, transitions, form,
                 approvals, payments, auth_users, roles, dashboard>>

\* ------------------------------------------------------- MyExpenses page
\* DELETE on expenses: row level security is enabled and the migrations create
\* no DELETE policy for the table, so no row passes
ExpenseDeletePolicy(uid, row) == FALSE

\* DELETE on expense_files: no DELETE policy either
ExpenseFileDeletePolicy(uid, expense_id) == FALSE

\* DELETE FROM expense_files WHERE expense_id = ... run as uid: the bill rows left
DeleteExpenseFiles(uid, expense_id) ==
  IF expense_id \in DOMAIN expense_files /\ ExpenseFileSelectPolicy(uid, expense_id)
       /\ ExpenseFileDeletePolicy(uid, expense_id)
    THEN [expense_files EXCEPT ![expense_id] = 0]
    ELSE expense_files

\* DELETE FROM expenses WHERE id = ... run as uid: the ids of the rows left
DeleteExpense(uid, expense_id) ==
  IF expense_id \in DOMAIN expenses /\ ExpenseSelectPolicy(uid, expenses[expense_id])
       /\ ExpenseDeletePolicy(uid, expenses[expense_id])
    THEN DOMAIN expenses \ {expense_id}
    ELSE DOMAIN expenses

\* the 'my-expenses' query
MyExpensesQuery(u, rows) == {r \in SelectExpenses(u, rows) : r.user_id = u}

fetchMyExpenses(u) ==
  /\ u \in Submitters
  /\ my_expenses' = [my_expenses EXCEPT ![u] = MyExpensesQuery(u, expenses)]
  /\ UNCHANGED <<advance_requests, advance_transitions, advances, user, roleFetches>>
  /\ UNCHANGED <<accountVars, user_roles, expenses, expense_files, expense_status_logs,
                 transitions, form, approvals, payments, lastResult>>

canEditOrDelete(status) == status = "draft"

\* Delete button of a card of the cached list: the files of the expense, then
\* the expense; neither delete reports an error when it matches no row
deleteExpenseMutation(u, expenseId) ==
  LET files == DeleteExpenseFiles(u, expenseId)
      left == DeleteExpense(u, expenseId)
  IN
  /\ u \in Submitters
  /\ \E r \in my_expenses[u] : r.id = expenseId /\ canEditOrDelete(r.status)
  /\ expense_files' = [id \in left |-> files[id]]
  /\ expenses' = [id \in left |-> expenses[id]]
  /\ expense_status_logs' = [id \in left |-> expense_status_logs[id]]
  /\ transitions' = [id \in left |-> transitions[id]]
  /\ my_expenses' = [my_expenses EXCEPT ![u] = MyExpensesQuery(u, expenses')]
  /\ lastResult' = [op |-> "deleteDraft", actor |-> u, id |-> expenseId,
                    pre |-> StatusOf(expenseId), outcome |-> "success"]
  /\ UNCHANGED <<advance_requests, advance_transitions, advances, user, roleFetches>>
  /\ UNCHANGED <<accountVars, user_roles, form, approvals, payments>>

\* ------------------------------------------------------- advance requests
advance_status == {"pending", "approved", "rejected", "disbursed"}

AdvanceInputs ==
  {[amount |-> 500, reason |-> "site travel advance"],
   [amount |-> 0, reason |-> "site travel advance"],
   [amount |-> 500, reason |-> "short"]}

\* the employees who ask for an advance and the reviewers who open the list
Requesters == {"emp"}
AdvanceReviewers == {"mgr1", "mgr2", "own"}

advanceSchema(amount, reason) ==
  /\ amount > 0
  /\ StrLen(reason) >= 10

\* a row as INSERT leaves it: status takes the column default
NewAdvance(user_id, amount, reason) ==
  [user_id |-> user_id, amount |-> amount, reason |-> reason, status |-> "pending",
   reviewed_by |-> NULL, rejection_reason |-> NULL]

\* "Users can create own advance requests"
AdvanceInsertPolicy(uid, row) == uid = row.user_id

\* "Users can view own advance requests", "Managers and owners can view all
\* advance requests", "Accounts can view approved advance requests"
AdvanceSelectPolicy(uid, row) ==
  \/ uid = row.user_id
  \/ has_role(uid, "manager") \/ has_role(uid, "owner")
  \/ has_role(uid, "accounts") /\ row.status \in {"approved", "disbursed"}

\* "Managers can update advance requests", "Accounts can update approved advance
\* requests for disbursement"
AdvanceUpdatePolicy(uid, row) ==
  \/ has_role(uid, "manager") \/ has_role(uid, "owner")
  \/ has_role(uid, "accounts") /\ row.status \in {"approved", "disbursed"}

\* UPDATE advance_requests SET ... WHERE id = advance_id, run as uid
UpdateAdvance(uid, advance_id, new) ==
  IF /\ advance_id \in DOMAIN advance_requests
     /\ AdvanceSelectPolicy(uid, advance_requests[advance_id])
     /\ AdvanceUpdatePolicy(uid, advance_requests[advance_id])
    THEN IF AdvanceUpdatePolicy(uid, new)
           THEN [rows |-> 1, error |-> FALSE]
           ELSE [rows |-> 0, error |-> TRUE]
    ELSE [rows |-> 0, error |-> FALSE]

\* AdvanceRequestDialog.handleSubmit
requestAdvance(u, input) ==
  LET reason == Trim(input.reason)
      row == NewAdvance(u, input.amount, reason)
  IN
  /\ u \in Requesters
  /\ input \in AdvanceInputs
  /\ Len(advance_requests) < MaxAdvances
  /\ IF ~advanceSchema(input.amount, reason)
       THEN /\ lastResult' = [op |-> "requestAdvance", actor |-> u, id |-> 0,
                              pre |-> "none", outcome |-> "ValidationError"]
            /\ UNCHANGED <<advance_requests, advance_transitions>>
       ELSE IF AdvanceInsertPolicy(u, row)
         THEN /\ advance_requests' = Append(advance_requests, row)
              /\ advance_transitions' = Append(advance_transitions, <<>>)
              /\ lastResult' = [op |-> "requestAdvance", actor |-> u,
                                id |-> Len(advance_requests) + 1, pre |-> "none",
                                outcome |-> "success"]
         ELSE /\ lastResult' = [op |-> "requestAdvance", actor |-> u, id |-> 0,
                                pre |-> "none", outcome |-> "error"]
              /\ UNCHANGED <<advance_requests, advance_transitions>>
  /\ UNCHANGED <<my_expenses, advances, user, roleFetches>>
  /\ UNCHANGED <<accountVars, user_roles, expenses, expense_files, expense_status_logs,
                 transitions, form, approvals, payments>>

\* the ids of the 'advance-approvals' rows the page lists under Pending
pendingAdvances(u, rows) ==
  {id \in DOMAIN rows : AdvanceSelectPolicy(u, rows[id]) /\ rows[id].status = "pending"}

\* the 'advance-approvals' query
fetchAdvances(u) ==
  /\ u \in AdvanceReviewers
  /\ primaryRole(u) \in {"manager", "owner"}
  /\ advances' = [advances EXCEPT ![u] = pendingAdvances(u, advance_requests)]
  /\ UNCHANGED <<my_expenses, advance_requests, advance_transitions, user, roleFetches>>
  /\ UNCHANGED <<accountVars, user_roles, expenses, expense_files, expense_status_logs,
                 transitions, form, approvals, payments, lastResult>>

\* the update of a review, its error and the refetch of onSuccess
AdvanceMutation(u, advanceId, op, new) ==
  LET r == UpdateAdvance(u, advanceId, new)
      after == IF r.rows = 1 THEN [advance_requests EXCEPT ![advanceId] = new]
               ELSE advance_requests
  IN
  /\ advance_requests' = after
  /\ advance_transitions' =
       IF r.rows = 1
         THEN [advance_transitions EXCEPT ![advanceId] =
                 Append(@, [from |-> advance_requests[advanceId].status,
                            status |-> new.status, actor |-> u])]
         ELSE advance_transitions
  /\ advances' = IF r.error THEN advances
                 ELSE [advances EXCEPT ![u] = pendingAdvances(u, after)]
  /\ lastResult' = [op |-> op, actor |-> u, id |-> advanceId,
                    pre |-> advance_requests[advanceId].status,
                    outcome |-> IF r.error THEN "error" ELSE "success"]
  /\ UNCHANGED <<my_expenses, user, roleFetches>>
  /\ UNCHANGED <<accountVars, user_roles, expenses, expense_files, expense_status_logs,
                 transitions, form, approvals, payments>>

approveAdvanceMutation(u, advanceId) ==
  /\ primaryRole(u) \in {"manager", "owner"}
  /\ advanceId \in advances[u]
  /\ AdvanceMutation(u, advanceId, "approveAdvance",
                     [advance_requests[advanceId] EXCEPT !.status = "approved",
                                                         !.reviewed_by = u])

rejectAdvanceMutation(u, advanceId, reason) ==
  AdvanceMutation(u, advanceId, "rejectAdvance",
                  [advance_requests[advanceId] EXCEPT !.status = "rejected",
                                                      !.reviewed_by = u,
                                                      !.rejection_reason = reason])

\* a reason the Reject button lets through whatever it holds
AnyReason(reason) == TRUE

\* the test of the Reject button of an advance card
ReasonGiven(reason) == Trim(reason) # ""

\* Reject button of an advance card
RejectAdvanceClick(u, advanceId, reason) ==
  /\ primaryRole(u) \in {"manager", "owner"}
  /\ advanceId \in advances[u]
  /\ reason \in Reasons
  /\ IF ~ReasonGiven(reason)
       THEN /\ lastResult' = [op |-> "rejectAdvance", actor |-> u, id |-> advanceId,
                              pre |-> advance_requests[advanceId].status,
                              outcome |-> "ValidationError"]
            /\ UNCHANGED <<pageVars, accountVars, user_roles, expenses, expense_files,
                           expense_status_logs, transitions, form, approvals, payments>>
       ELSE rejectAdvanceMutation(u, advanceId, reason)

\* ----------------------------------------------------------- AuthProvider
\* handleAuthStateChange up to its await: the auth listener or the initial
\* getSession hands over the session, or none
handleAuthStateChange(b, hasSession) ==
  /\ b \in Sessions
  /\ b \in DOMAIN auth_users
  /\ user' = [user EXCEPT ![b] = IF hasSession THEN b ELSE NULL]
  /\ IF hasSession
       THEN /\ roleFetches[b] < MaxFetches
            /\ roleFetches' = [roleFetches EXCEPT ![b] = @ + 1]
            /\ UNCHANGED roles
       ELSE /\ roles' = [roles EXCEPT ![b] = <<>>]
            /\ UNCHANGED roleFetches
  /\ UNCHANGED <<my_expenses, advance_requests, advance_transitions, advances>>
  /\ UNCHANGED <<user_roles, expenses, expense_files, expense_status_logs, transitions,
                 form, approvals, payments, lastResult, auth_users, profiles, users,
                 dashboard>>

\* the select of a fetchRoles call returns: setRoles with its rows, or with
\* none when it failed
fetchRolesResolved(b, ok) ==
  /\ b \in Sessions
  /\ roleFetches[b] > 0
  /\ roleFetches' = [roleFetches EXCEPT ![b] = @ - 1]
  /\ roles' = [roles EXCEPT ![b] = IF ok THEN user_roles[b] ELSE <<>>]
  /\ UNCHANGED <<my_expenses, advance_requests, advance_transitions, advances, user>>
  /\ UNCHANGED <<user_roles, expenses, expense_files, expense_status_logs, transitions,
                 form, approvals, payments, lastResult, auth_users, profiles, users,
                 dashboard>>

signOut(b) ==
  /\ b \in Sessions
  /\ user[b] # NULL
  /\ user' = [user EXCEPT ![b] = NULL]
  /\ roles' = [roles EXCEPT ![b] = <<>>]
  /\ UNCHANGED <<my_expenses, advance_requests, advance_transitions, advances, roleFetches>>
  /\ UNCHANGED <<user_roles, expenses, expense_files, expense_status_logs, transitions,
                 form, approvals, payments, lastResult, auth_users, profiles, users,
                 dashboard>>

\* --------------------------------------------------------- specification
Next ==
  \/ \E u \in Users : OpenNewForm(u)
  \/ \E u \in Users, id \in 1..MaxExpenses : fetchExpense(u, id)
  \/ \E u \in Users, shouldSubmit \in BOOLEAN, input \in FormInputs, nfiles \in 0..MaxFiles :
        handleSubmit(u, shouldSubmit, input, nfiles)
  \/ \E u \in Users, stored \in 0..MaxFiles : uploadFiles(u, stored)
  \/ \E u \in Users, storageOk \in BOOLEAN : createStatusLog(u, storageOk)
  \/ \E u \in Users : fetchApprovals(u)
  \/ \E u \in Users, id \in 1..MaxExpenses : approveMutation(u, id)
  \/ \E u \in Users, id \in 1..MaxExpenses, reason \in Reasons : RejectClick(u, id, reason)
  \/ \E u \in Users, id \in 1..MaxExpenses, reason \in Reasons :
        RejectClickWithReason(u, id, reason)
  \/ \E u \in Users : fetchPayments(u)
  \/ \E u \in Users, id \in 1..MaxExpenses, reference \in References :
        markAsPaidMutation(u, id, reference)

Spec == Init /\ [][Next]_vars

\* the same handlers when every upload and every log insert is served
NextNoFailure ==
  \/ \E u \in Users : OpenNewForm(u)
  \/ \E u \in Users, id \in 1..MaxExpenses : fetchExpense(u, id)
  \/ \E u \in Users, shouldSubmit \in BOOLEAN, input \in FormInputs, nfiles \in 0..MaxFiles :
        handleSubmit(u, shouldSubmit, input, nfiles)
  \/ \E u \in Users : uploadFiles(u, form[u].files)
  \/ \E u \in Users : createStatusLog(u, TRUE)
  \/ \E u \in Users : fetchApprovals(u)
  \/ \E u \in Users, id \in 1..MaxExpenses : approveMutation(u, id)
  \/ \E u \in Users, id \in 1..MaxExpenses, reason \in Reasons : RejectClick(u, id, reason)
  \/ \E u \in Users, id \in 1..MaxExpenses, reason \in Reasons :
        RejectClickWithReason(u, id, reason)
  \/ \E u \in Users : fetchPayments(u)
  \/ \E u \in Users, id \in 1..MaxExpenses, reference \in References :
        markAsPaidMutation(u, id, reference)

SpecNoFailure == Init /\ [][NextNoFailure]_vars

\* the expense handlers and the dashboard
NextDashboard ==
  \/ Next
  \/ \E u \in Users : fetchDashboardData(u)

SpecDashboard == Init /\ [][NextDashboard]_vars

\* sign-up and the Users page
NextUsers ==
  \/ \E u \in Users, meta \in MetaRoles : signUp(u, meta)
  \/ \E o \in Users : fetchUsers(o)
  \/ \E o \in Users, userId \in Users, role \in user_role : addRoleMutation(o, userId, role)
  \/ \E o \in Users, userId \in Users, role \in user_role :
        removeRoleMutation(o, userId, role)
  \/ \E o \in Users, userId \in Users : deleteUserMutation(o, userId)

SpecUsers == Init /\ [][NextUsers]_vars

\* sign-in with role resolution, the expense form and the dashboard
NextRoles ==
  \/ \E u \in Users, ok \in BOOLEAN : fetchRoles(u, ok)
  \/ \E u \in Users : fetchDashboardData(u)
  \/ \E u \in Users : OpenNewForm(u)
  \/ \E u \in Users, shouldSubmit \in BOOLEAN, input \in FormInputs, nfiles \in 0..MaxFiles :
        handleSubmit(u, shouldSubmit, input, nfiles)
  \/ \E u \in Users, stored \in 0..MaxFiles : uploadFiles(u, stored)
  \/ \E u \in Users, storageOk \in BOOLEAN : createStatusLog(u, storageOk)

SpecRoles == Init /\ [][NextRoles]_vars

\* the expense handlers and the MyExpenses page
NextMyExpenses ==
  \/ Next
  \/ \E u \in Users : fetchMyExpenses(u)
  \/ \E u \in Users, id \in 1..MaxExpenses : deleteExpenseMutation(u, id)

SpecMyExpenses == Init /\ [][NextMyExpenses]_vars

\* the advance request dialog and the advance tab of the Approvals page
NextAdvances ==
  \/ \E u \in Users, input \in AdvanceInputs : requestAdvance(u, input)
  \/ \E u \in Users : fetchAdvances(u)
  \/ \E u \in Users, id \in 1..MaxAdvances : approveAdvanceMutation(u, id)
  \/ \E u \in Users, id \in 1..MaxAdvances, reason \in Reasons :
        RejectAdvanceClick(u, id, reason)

SpecAdvances == Init /\ [][NextAdvances]_vars

\* the auth events of a browser and the completions of its role fetches
NextAuth ==
  \/ \E b \in Users, hasSession \in BOOLEAN : handleAuthStateChange(b, hasSession)
  \/ \E b \in Users, ok \in BOOLEAN : fetchRolesResolved(b, ok)
  \/ \E b \in Users : signOut(b)

SpecAuth == Init /\ [][NextAuth]_vars

TypeOK ==
  /\ \A id \in DOMAIN expenses : expenses[id].status \in expense_status
  /\ DOMAIN expenses = DOMAIN transitions
  /\ DOMAIN expenses = DOMAIN expense_status_logs

\* ------------------------------------------------------------ properties
ManagerOutcomes == {"manager_approved", "manager_rejected"}

TerminalStatuses == {"paid", "manager_rejected", "owner_rejected"}

Pipeline == {"draft", "submitted", "reviewed", "manager_approved", "owner_approved",
             "pending_payment", "paid"}

Rank(status) ==
  CASE status = "draft" -> 0
    [] status \in {"submitted", "reviewed"} -> 1
    [] status = "manager_approved" -> 2
    [] status = "owner_approved" -> 3
    [] status = "pending_payment" -> 4
    [] OTHER -> 5

RejectBranch(from, to) ==
  \/ to = "manager_rejected" /\ from \in {"submitted", "reviewed"}
  \/ to = "owner_rejected" /\ from = "manager_approved"

\* no handleSubmit is between two of its awaits
Quiescent == \A u \in Users : form[u].pc \in {"closed", "editing"}

\* C1: of the manager reviews made on one submission of an expense exactly one
\* takes effect: the history of an expense never holds two manager outcomes
\* without a submission between them.
C1_OneManagerReviewWins ==
  \A id \in DOMAIN transitions :
    \A i, j \in DOMAIN transitions[id] :
      (i < j /\ transitions[id][i].status \in ManagerOutcomes
             /\ transitions[id][j].status \in ManagerOutcomes)
        => \E k \in (i + 1)..(j - 1) : transitions[id][k].status \in {"submitted", "reviewed"}

\* C2: a status only moves forward along the pipeline or along a defined
\* reject branch (manager_rejected from submitted/reviewed, owner_rejected from
\* manager_approved).
C2_StatusNeverMovesBackward ==
  [][\A id \in DOMAIN expenses :
       LET from == expenses[id].status
           to == expenses'[id].status
       IN \/ from = to
          \/ from \in Pipeline /\ to \in Pipeline /\ Rank(to) > Rank(from)
          \/ RejectBranch(from, to)]_vars

\* C3: paid, manager_rejected and owner_rejected are terminal: no step changes
\* the status of an expense that has one of them.
C3_TerminalStatusesStay ==
  [][\A id \in DOMAIN expenses :
       expenses[id].status \in TerminalStatuses
         => expenses'[id].status = expenses[id].status]_vars

\* C4: the update policies let a user write a row only when the user's role
\* owns the stage of the row's current status, or the user owns the row and it
\* is a draft; whatever new status the client sends.
StageWriter(uid, row) ==
  \/ row.user_id = uid /\ row.status = "draft"
  \/ has_role(uid, "manager") /\ row.status \in {"submitted", "reviewed"}
  \/ has_role(uid, "owner") /\ row.status = "manager_approved"
  \/ has_role(uid, "accounts") /\ row.status = "owner_approved"

C4_StorageWriteOnlyByStageOwner ==
  \A id \in DOMAIN expenses : \A uid \in Users : \A status \in expense_status :
    UpdateExpense(uid, id, [expenses[id] EXCEPT !.status = status]).rows = 1
      => StageWriter(uid, expenses[id])

\* C5: when an upload of a submission fails, the expense has the status it had
\* before the attempt (no row, if the attempt created it).
C5_FailedUploadKeepsStatus ==
  [][\A u \in Users :
       (form[u].pc = "saved" /\ form[u].shouldSubmit /\ form'[u].pc = "editing")
         => StatusIn(expenses', form[u].expenseId) = form[u].pre]_vars

\* C6: between handlers, every expense has a status log row and the latest
\* one carries the expense's current status.
C6_LatestLogIsCurrentStatus ==
  Quiescent =>
    \A id \in DOMAIN expenses :
      /\ Len(expense_status_logs[id]) >= 1
      /\ expense_status_logs[id][Len(expense_status_logs[id])].status = expenses[id].status

\* C7: between handlers, the status log of an expense lists exactly the
\* transitions performed on it, in order, each with its status and its actor.
C7_OneLogPerTransition ==
  Quiescent =>
    \A id \in DOMAIN expenses :
      /\ Len(expense_status_logs[id]) = Len(transitions[id])
      /\ \A i \in DOMAIN transitions[id] :
           /\ expense_status_logs[id][i].status = transitions[id][i].status
           /\ expense_status_logs[id][i].changed_by = transitions[id][i].actor

\* C8: saving a draft expense as draft changes neither its status nor its
\* status log, in any step of the save.
C8_EditDraftLeavesStatusAndLog ==
  [][\A u \in Users :
       LET f == form[u] IN
       /\ (f.pc = "editing" /\ f.id # 0 /\ StatusOf(f.id) = "draft"
            /\ form'[u].pc \in {"saved", "uploaded"} /\ ~form'[u].shouldSubmit)
           => StatusIn(expenses', f.id) = "draft" /\ expense_status_logs' = expense_status_logs
       /\ (f.pc \in {"saved", "uploaded"} /\ f.id # 0 /\ ~f.shouldSubmit /\ f.pre = "draft")
           => expense_status_logs' = expense_status_logs]_vars

\* C9: a manager_rejected expense has a non-empty manager_rejection_reason and
\* an owner_rejected expense a non-empty owner_rejection_reason.
C9_RejectedHasReason ==
  \A id \in DOMAIN expenses :
    /\ expenses[id].status = "manager_rejected"
         => expenses[id].manager_rejection_reason \notin {NULL, ""}
    /\ expenses[id].status = "owner_rejected"
         => expenses[id].owner_rejection_reason \notin {NULL, ""}

\* C10: a transition attempted on an expense whose status is not the one the
\* transition requires is reported to the caller as InvalidTransition.
RequiredStatus(op, actor) ==
  CASE op = "submit" -> {"draft"}
    [] op \in {"approve", "reject"} ->
         IF primaryRole(actor) = "manager" THEN {"submitted", "reviewed"}
         ELSE {"manager_approved"}
    [] op = "pay" -> {"owner_approved"}
    [] OTHER -> expense_status

C10_MismatchIsInvalidTransition ==
  (/\ lastResult.op \in {"submit", "approve", "reject", "pay"}
   /\ lastResult.pre \in expense_status
   /\ lastResult.pre \notin RequiredStatus(lastResult.op, lastResult.actor))
    => lastResult.outcome = "InvalidTransition"

\* C11: a user whose only role is employee is shown by the select policies, and
\* receives from the dashboard queries, no expense of another user, whatever
\* the expense's status.
OnlyEmployee(rs) == Len(rs) >= 1 /\ \A i \in DOMAIN rs : rs[i] = "employee"

C11_EmployeeSeesOwnRowsOnly ==
  /\ \A uid \in Users : \A id \in DOMAIN expenses :
       (OnlyEmployee(user_roles[uid]) /\ ExpenseSelectPolicy(uid, expenses[id]))
         => expenses[id].user_id = uid
  /\ (dashboard.actor # NULL /\ OnlyEmployee(dashboard.held))
       => \A r \in dashboard.rows \cup dashboard.activity : r.user_id = dashboard.actor

C11_Witness ==
  /\ dashboard.actor = "emp2" /\ OnlyEmployee(dashboard.held) /\ dashboard.rows = {}
  /\ \E id \in DOMAIN expenses :
       expenses[id].user_id = "emp" /\ expenses[id].status = "owner_approved"

\* C12: an expense of another user is shown to a user who is not an owner, by
\* the select policies and in what the dashboard queries return, only while its
\* status is in the manager's set (for a manager) or in the accounts set (for
\* accounts); in every state, so a row that leaves the set is no longer shown.
ManagerVisible == {"submitted", "reviewed", "manager_approved", "manager_rejected"}

AccountsVisible == {"owner_approved", "pending_payment", "paid"}

RoleMayRead(rs, status) ==
  \/ Holds(rs, "manager") /\ status \in ManagerVisible
  \/ Holds(rs, "accounts") /\ status \in AccountsVisible

C13_FilesAndLogsFollowExpense ==
  \A uid \in Users : \A id \in DOMAIN expenses :
    /\ ExpenseFileSelectPolicy(uid, id) <=> ExpenseSelectPolicy(uid, expenses[id])
    /\ StatusLogSelectPolicy(uid, id) <=> ExpenseSelectPolicy(uid, expenses[id])

\* a paid expense with a bill and a log: hidden from the manager, files and
\* logs included, shown to accounts
C13_Witness ==
  \E id \in DOMAIN expenses :
    /\ expenses[id].status = "paid"
    /\ expense_files[id] >= 1 /\ Len(expense_status_logs[id]) >= 1
    /\ has_role("mgr1", "manager")
    /\ ~ExpenseFileSelectPolicy("mgr1", id) /\ ~StatusLogSelectPolicy("mgr1", id)
    /\ ExpenseFileSelectPolicy("acc", id) /\ StatusLogSelectPolicy("acc", id)

\* C14: every sign-up gives the new account exactly one role row, employee,
\* whatever role the request's metadata names.
C14_SignUpAssignsEmployee ==
  [][\A u \in Users :
       (u \notin DOMAIN auth_users /\ u \in DOMAIN auth_users')
         => user_roles'[u] = <<"employee">>]_vars

C14_Witness ==
  /\ "new" \in DOMAIN auth_users /\ auth_users["new"] = "owner"
  /\ lastResult.op = "signUp" /\ lastResult.actor = "new"
  /\ user_roles["new"] = <<"employee">>

\* C15: every user that has a profile has at least one role row, whatever
\* sign-ups, role additions, role removals and user removals have happened.
C15_EveryUserHasARole ==
  \A u \in profiles : Len(user_roles[u]) >= 1

C17_RoleResolutionFailsClosed ==
  [][/\ \A u \in Users :
          (lastResult' # lastResult /\ lastResult'.op = "fetchRoles"
             /\ lastResult'.actor = u /\ lastResult'.outcome = "error")
            => roles'[u] = <<>>
     /\ (dashboard' # dashboard /\ dashboard'.branch = "employee")
          => (Len(dashboard'.resolved) > 0 /\ dashboard'.resolved[1] = "employee")]_vars

\* C18: a step that writes owner_approved or owner_rejected to an expense is
\* taken by a user holding owner on an expense whose status is
\* manager_approved.
OwnerOutcomes == {"owner_approved", "owner_rejected"}

C18_OwnerReviewOnlyAfterManager ==
  [][\A id \in DOMAIN expenses :
       (expenses'[id] # expenses[id] /\ expenses'[id].status \in OwnerOutcomes)
         => /\ expenses[id].status = "manager_approved"
            /\ has_role(lastResult'.actor, "owner")]_vars

\* C19: a step that writes paid to an expense is taken by a user holding
\* accounts on an expense whose status is owner_approved, and leaves paid_by
\* and a non-empty payment_reference on it.
C19_PayOnlyOwnerApproved ==
  [][\A id \in DOMAIN expenses :
       (expenses'[id] # expenses[id] /\ expenses'[id].status = "paid")
         => /\ expenses[id].status = "owner_approved"
            /\ has_role(lastResult'.actor, "accounts")
            /\ expenses'[id].paid_by = lastResult'.actor
            /\ Trim(expenses'[id].payment_reference) \notin {NULL, ""}]_vars

\* C20: every expense row enters the table with status draft, inserted by the
\* user it belongs to.
C20_CreatedAsDraft ==
  [][Len(expenses') > Len(expenses) =>
       /\ expenses'[Len(expenses')].status = "draft"
       /\ \E u \in Users :
            form[u].pc = "editing" /\ expenses'[Len(expenses')].user_id = u]_vars

\* C21: the update policies let a user change the content of an expense (here
\* its amount) only when the user owns the expense and its status is draft.
C21_ContentEditOnlyOwnDraft ==
  \A id \in DOMAIN expenses : \A uid \in Users :
    UpdateExpense(uid, id, [expenses[id] EXCEPT !.amount = @ + 1]).rows = 1
      => (expenses[id].user_id = uid /\ expenses[id].status = "draft")

\* C22: an expense becomes submitted only by its owner's submit, from draft
\* (or from the new form) and with a positive amount; and the owner's submit
\* of his existing draft with a filling that passes validation is not refused.
C22_OwnerSubmitsOwnDraft ==
  [][/\ \A id \in DOMAIN expenses' :
          (StatusIn(expenses', id) = "submitted" /\ StatusIn(expenses, id) # "submitted")
            => /\ StatusIn(expenses, id) \in {"draft", "none"}
               /\ expenses'[id].amount > 0
               /\ \E u \in Users : form[u].pc = "editing" /\ expenses'[id].user_id = u
     /\ \A u \in Users :
          (/\ form[u].pc = "editing"
           /\ form[u].id \in DOMAIN expenses
           /\ expenses[form[u].id].user_id = u
           /\ expenses[form[u].id].status = "draft"
           /\ lastResult' # lastResult
           /\ lastResult'.op = "submit" /\ lastResult'.actor = u)
            => lastResult'.outcome = "ValidationError"]_vars

\* C23: an expense row or its files are removed only by the delete of the
\* expense's owner while the status is draft, and a delete that the owner makes
\* of his draft and that reports success has removed the files and the row.
C23_DeleteDraftRemovesOwnDraft ==
  [][/\ \A id \in DOMAIN expenses :
          (id \notin DOMAIN expenses' \/ (id \in DOMAIN expense_files' /\ expense_files'[id] < expense_files[id]))
            => /\ lastResult'.op = "deleteDraft"
               /\ expenses[id].user_id = lastResult'.actor
               /\ expenses[id].status = "draft"
     /\ \A id \in DOMAIN expenses :
          (/\ lastResult' # lastResult
           /\ lastResult'.op = "deleteDraft" /\ lastResult'.id = id
           /\ lastResult'.outcome = "success"
           /\ expenses[id].user_id = lastResult'.actor /\ expenses[id].status = "draft")
            => id \notin DOMAIN expenses']_vars

AdvanceStep(from, to, actor) ==
  \/ /\ from = "pending" /\ to \in {"approved", "rejected"}
     /\ has_role(actor, "manager") \/ has_role(actor, "owner")
  \/ /\ from = "approved" /\ to = "disbursed"
     /\ has_role(actor, "accounts")

\* C24: an advance request is created pending, and its status changes only
\* pending -> approved or rejected by a holder of manager or owner, or
\* approved -> disbursed by a holder of accounts; rejected and disbursed stay.
C24_AdvanceLifecycle ==
  [][\A id \in DOMAIN advance_requests' :
       IF id \notin DOMAIN advance_requests
         THEN advance_requests'[id].status = "pending"
         ELSE advance_requests'[id].status # advance_requests[id].status
                => AdvanceStep(advance_requests[id].status, advance_requests'[id].status,
                               lastResult'.actor)]_vars

\* C25: every rejected advance request carries a reason that is not empty and
\* names in reviewed_by the reviewer whose rejection was the last to take effect.
C25_RejectedAdvanceHasReason ==
  \A id \in DOMAIN advance_requests :
    advance_requests[id].status = "rejected"
      => /\ advance_requests[id].rejection_reason \notin {NULL, ""}
         /\ advance_transitions[id] # <<>>
         /\ LET last == advance_transitions[id][Len(advance_transitions[id])]
            IN last.status = "rejected" /\ advance_requests[id].reviewed_by = last.actor

C25_Witness ==
  \E id \in DOMAIN advance_requests :
    /\ advance_requests[id].status = "rejected"
    /\ advance_requests[id].rejection_reason = "over budget"
    /\ advance_requests[id].reviewed_by = "mgr1"

FileCategories == {"bill", "payment_proof"}

\* C26: the insert policies of expense_files accept a bill only from the owner
\* of the expense and a payment_proof only from a holder of the accounts role.
C26_FileInsertByCategory ==
  \A id \in DOMAIN expenses : \A uid \in Users : \A file_category \in FileCategories :
    ExpenseFileInsertPolicy(uid, id, file_category)
      => \/ file_category = "bill" /\ expenses[id].user_id = uid
         \/ file_category = "payment_proof" /\ has_role(uid, "accounts")

\* C27: a status log row is inserted only by the last step of a save, after the
\* step that wrote the expense row, and a log insert that fails leaves the
\* expense as written and the save reported as a success.
C27_LogAfterCommitNonFatal ==
  [][/\ \A id \in DOMAIN expense_status_logs :
          (id \in DOMAIN expense_status_logs'
             /\ Len(expense_status_logs'[id]) > Len(expense_status_logs[id]))
            => /\ id \in DOMAIN expenses /\ expenses' = expenses
               /\ \E u \in Users : form[u].pc = "uploaded" /\ form[u].expenseId = id
     /\ \A u \in Users :
          (form[u].pc = "uploaded" /\ form'[u] # form[u]
             /\ expense_status_logs' = expense_status_logs)
            => /\ expenses' = expenses /\ transitions' = transitions
               /\ lastResult'.actor = u /\ lastResult'.outcome = "success"
               /\ form'[u].pc = "closed"]_vars

C27_Witness ==
  \E id \in DOMAIN expenses :
    /\ expenses[id].status = "submitted"
    /\ expense_status_logs[id] = <<>>
    /\ lastResult.op = "submit" /\ lastResult.id = id /\ lastResult.outcome = "success"
    /\ form[expenses[id].user_id].pc = "closed"

\* C28: in a browser where no user is signed in the AuthProvider holds no role,
\* whatever the order of auth events, sign-outs and role fetch completions.
C28_SignedOutHoldsNoRole ==
  \A b \in Users : user[b] = NULL => roles[b] = <<>>

ManagerApprovedStatuses == {"manager_approved", "owner_approved", "pending_payment", "paid"}

OwnerApprovedStatuses == {"owner_approved", "pending_payment", "paid"}

\* C29: an expense at or past manager_approved names in manager_approved_by a
\* holder of manager, one at or past owner_approved names in owner_approved_by a
\* holder of owner, and an expense that carries a rejection reason has none of
\* these statuses.
C29_ActorFieldsMatchStatus ==
  \A id \in DOMAIN expenses :
    LET e == expenses[id] IN
    /\ e.status \in ManagerApprovedStatuses
         => e.manager_approved_by # NULL /\ has_role(e.manager_approved_by, "manager")
    /\ e.status \in OwnerApprovedStatuses
         => e.owner_approved_by # NULL /\ has_role(e.owner_approved_by, "owner")
    /\ (e.manager_rejection_reason \notin {NULL, ""} \/ e.owner_rejection_reason \notin {NULL, ""})
         => e.status \notin ManagerApprovedStatuses

\* C30: a save or submit of the new form that was reported to the user as
\* failed has left no expense row behind, so that the retry of the same form,
\* which inserts again, makes the only row of that form.
C30_FailedSaveLeavesNoRow ==
  \A u \in Users :
    (/\ form[u].pc = "editing" /\ form[u].id = 0
     /\ lastResult.actor = u /\ lastResult.op \in {"create", "submit"}
     /\ lastResult.pre = "none" /\ lastResult.outcome = "error")
      => lastResult.id \notin DOMAIN expenses
====
